---- MODULE Spec2Model ----
(***************************************************************************)
(* systemd-network-generator-hcloud: main() and writeConfigs() of          *)
(* src/main.go as a state machine.                                         *)
(*                                                                         *)
(* Strings whose prefix or suffix the program inspects (interface names,   *)
(* file names) are sequences of one-character strings.  A file path is the *)
(* pair <<ConfigDir, name>>: entry names are plain file-name components.   *)
(* A file's content is the sequence of its lines, a line being the tuple   *)
(* of the pieces Sprintf joins (format text, argument).                    *)
(***************************************************************************)
EXTENDS Integers, Sequences, FiniteSets, TLC

-----------------------------------------------------------------------------
(* Bounds of the model. *)
MaxLinks == 2
MaxEntries == 2
MaxSubnets == 2
MaxFailures == 2

-----------------------------------------------------------------------------
(* Constants of the program. *)
ConfigDir == "/run/systemd/network"
ConfigPrefix == <<"8", "0", "-", "h", "e", "t", "z", "n", "e", "r", "-">>
ConfigSuffix == <<".", "n", "e", "t", "w", "o", "r", "k">>
Nil == 0
StatusOK == 200
SupportedVersion == 1
ExitFailure == 1
ExitSuccess == 0

-----------------------------------------------------------------------------
VARIABLES
    pc,           \* position of the run in main / writeConfigs
    ifaces,       \* the host's interfaces: sequence of [name, up]
    llAddrOn,     \* indices of the interfaces that hold 169.254.0.1/16
    links,        \* main: links (the result of LinkList)
    haveLink,     \* main: haveLink
    firstEn,      \* main: firstEn (index into links, Nil when nil)
    doc,          \* the document the metadata service holds: [version, entries]
    fetchRes,     \* which branch of the fetch chain was taken
    ok,           \* main: ok
    exitCode,     \* the process exit status, once pc = "done"
    dir,          \* the file system: path -> content or NoFile
    entries,      \* writeConfigs: entries
    wok,          \* writeConfigs: ok
    listing,      \* writeConfigs: dirEntries not yet visited
    eIdx,         \* writeConfigs: position of the entries loop
    sIdx,         \* writeConfigs: position of the subnets loop
    config,       \* writeConfigs: config
    wantDHCPv4,   \* writeConfigs: wantDHCPv4
    wantDHCPv6,   \* writeConfigs: wantDHCPv6
    calls,        \* history: the external calls of this run, in order
    dir0,         \* history: the file system when this run started
    run,          \* history: number of the current run
    prevDir,      \* history: the file system when the previous run returned
    prevOk,       \* history: the result of the previous run
    failures      \* history: number of failed file operations so far

vars ==
    <<pc, ifaces, llAddrOn, links, haveLink, firstEn, doc, fetchRes, ok, exitCode,
      dir, entries, wok, listing, eIdx, sIdx, config, wantDHCPv4, wantDHCPv6,
      calls, dir0, run, prevDir, prevOk, failures>>

hostVars == <<ifaces, llAddrOn>>
mainVars == <<links, haveLink, firstEn, doc, fetchRes, ok, exitCode>>
renderVars == <<sIdx, config, wantDHCPv4, wantDHCPv6>>
histVars == <<dir0, run, prevDir, prevOk>>

Call(op, arg, succ) == [op |-> op, arg |-> arg, ok |-> succ]

-----------------------------------------------------------------------------
(* strings.HasPrefix, strings.HasSuffix *)
HasPrefix(s, p) == Len(s) >= Len(p) /\ SubSeq(s, 1, Len(p)) = p
HasSuffix(s, p) == Len(s) >= Len(p) /\ SubSeq(s, Len(s) - Len(p) + 1, Len(s)) = p

IsEthernet(name) == HasPrefix(name, <<"e", "n">>) \/ HasPrefix(name, <<"e", "t", "h">>)

IsOldConfig_wrongSuffix(name) ==
    HasPrefix(name, ConfigPrefix) /\ HasSuffix(name, <<".", "c", "o", "n", "f">>)
IsOldConfig_prefixOnly(name) == HasPrefix(name, ConfigPrefix)
IsOldConfig_onlyReplaced(name) ==
    /\ HasPrefix(name, ConfigPrefix) /\ HasSuffix(name, ConfigSuffix)
    /\ \E i \in DOMAIN entries : name = ConfigPrefix \o entries[i].name \o ConfigSuffix
IsOldConfig(name) == HasPrefix(name, ConfigPrefix) /\ HasSuffix(name, ConfigSuffix)

ConfigName(entryName) == ConfigPrefix \o entryName \o ConfigSuffix
ConfigPath(name) == <<ConfigDir, name>>

IsPhysical_any(entry) == TRUE
IsPhysical(entry) == entry.type = "physical"

-----------------------------------------------------------------------------
(* The inputs: interfaces of the host, metadata documents, directory.      *)
SeqsUpTo(S, n) == UNION {[1..k -> S] : k \in 0..n}

IfNames == {<<"e", "t", "h", "0">>, <<"e", "n", "s", "3">>, <<"l", "o">>}
IfaceSet == {l \in [name : IfNames, up : BOOLEAN] : IsEthernet(l.name) \/ l.up}

NSLists == {<<>>, <<"185.12.64.1", "185.12.64.2">>}
SubnetSet ==
    [ipv4 : BOOLEAN, ipv6 : BOOLEAN, type : {"dhcp", "static"},
     address : {"", "10.0.0.5/24"}, gateway : {"", "10.0.0.1"},
     dns_nameservers : NSLists]

EntryNames == {<<"a">>, <<"b">>}
MACs == {"aa:bb:cc:dd:ee:ff"}
DhcpSubnet ==
    [ipv4 |-> TRUE, ipv6 |-> FALSE, type |-> "dhcp", address |-> "",
     gateway |-> "", dns_nameservers |-> <<>>]
StaticSubnet ==
    [ipv4 |-> FALSE, ipv6 |-> TRUE, type |-> "static", address |-> "10.0.0.5/24",
     gateway |-> "10.0.0.1", dns_nameservers |-> <<"185.12.64.1", "185.12.64.2">>]
SubnetLists == {<<>>, <<DhcpSubnet, StaticSubnet>>}
EntrySet ==
    [name : EntryNames, type : {"physical"}, mac_address : MACs, subnets : SubnetLists]
    \cup [name : EntryNames, type : {"vlan"}, mac_address : MACs,
          subnets : {<<DhcpSubnet, StaticSubnet>>}]
RichEntrySet ==
    [name : {<<"a">>}, type : {"physical"}, mac_address : MACs,
     subnets : SeqsUpTo(SubnetSet, MaxSubnets)]

(* The file names of the model, in the byte order os.ReadDir lists them.   *)
ForeignName == <<"1", "0", "-", "x">> \o ConfigSuffix
StaleName == ConfigName(<<"o", "l", "d">>)
OtherExtName == ConfigPrefix \o <<"z", ".", "c", "o", "n", "f">>
AllNames == <<ForeignName, ConfigName(<<"a">>), ConfigName(<<"b">>), StaleName, OtherExtName>>
AllPaths == {ConfigPath(AllNames[i]) : i \in DOMAIN AllNames}

NoFile == [exists |-> FALSE, content |-> <<>>]
File(content) == [exists |-> TRUE, content |-> content]
OldContent == << <<"old">> >>


-----------------------------------------------------------------------------
(* main, lines 136-157: enumerate the interfaces and scan them.            *)
RECURSIVE ScanLinks_firstOnly(_, _, _)
ScanLinks_firstOnly(ls, i, fe) ==
    IF i > Len(ls) THEN [haveLink |-> FALSE, firstEn |-> fe]
    ELSE IF IsEthernet(ls[i].name)
         THEN [haveLink |-> ls[i].up, firstEn |-> IF ls[i].up THEN fe ELSE i]
         ELSE ScanLinks_firstOnly(ls, i + 1, fe)
RECURSIVE ScanLinks_lastFallback(_, _, _)
ScanLinks_lastFallback(ls, i, fe) ==
    IF i > Len(ls) THEN [haveLink |-> FALSE, firstEn |-> fe]
    ELSE IF IsEthernet(ls[i].name)
         THEN IF ls[i].up
              THEN [haveLink |-> TRUE, firstEn |-> fe]
              ELSE ScanLinks_lastFallback(ls, i + 1, i)
         ELSE ScanLinks_lastFallback(ls, i + 1, fe)
RECURSIVE ScanLinks(_, _, _)
ScanLinks(ls, i, fe) ==
    IF i > Len(ls) THEN [haveLink |-> FALSE, firstEn |-> fe]
    ELSE IF IsEthernet(ls[i].name)
         THEN IF ls[i].up
              THEN [haveLink |-> TRUE, firstEn |-> fe]
              ELSE ScanLinks(ls, i + 1, IF fe = Nil THEN i ELSE fe)
         ELSE ScanLinks(ls, i + 1, fe)

LinkList ==
    /\ pc = "probe"
    /\ \E err \in BOOLEAN :
         LET ls == IF err THEN <<>> ELSE ifaces
             r == ScanLinks(ls, 1, Nil)
         IN /\ links' = ls
            /\ haveLink' = r.haveLink
            /\ firstEn' = r.firstEn
            /\ calls' = Append(calls, Call("LinkList", Nil, ~err))
    /\ pc' = "activate"
    /\ UNCHANGED <<hostVars, doc, fetchRes, ok, exitCode, dir, entries, wok, listing,
                   eIdx, renderVars, histVars, failures>>

(* main, lines 168-185: temporary activation of the fallback interface.    *)
SetUp(ifs, i, up) == [ifs EXCEPT ![i].up = up]

NoActivation ==
    /\ pc = "activate"
    /\ ~(~haveLink /\ firstEn # Nil)
    /\ pc' = "fetch"
    /\ UNCHANGED <<hostVars, mainVars, dir, entries, wok, listing, eIdx, renderVars,
                   calls, histVars, failures>>

LinkSetUp_retry ==
    /\ pc = "activate"
    /\ ~haveLink /\ firstEn # Nil
    /\ \E err \in BOOLEAN :
         /\ calls' = Append(calls, Call("LinkSetUp", firstEn, ~err))
         /\ IF err
            THEN pc' = (IF Len(calls) < 2 THEN "activate" ELSE "fetch")
                 /\ firstEn' = (IF Len(calls) < 2 THEN firstEn ELSE Nil)
                 /\ UNCHANGED ifaces
            ELSE ifaces' = SetUp(ifaces, firstEn, TRUE) /\ pc' = "addr"
                 /\ UNCHANGED firstEn
    /\ UNCHANGED <<llAddrOn, links, haveLink, doc, fetchRes, ok, exitCode, dir, entries,
                   wok, listing, eIdx, renderVars, histVars, failures>>

LinkSetUp ==
    /\ pc = "activate"
    /\ ~haveLink /\ firstEn # Nil
    /\ \E err \in BOOLEAN :
         /\ calls' = Append(calls, Call("LinkSetUp", firstEn, ~err))
         /\ IF err
            THEN firstEn' = Nil /\ pc' = "fetch" /\ UNCHANGED ifaces
            ELSE ifaces' = SetUp(ifaces, firstEn, TRUE) /\ pc' = "addr"
                 /\ UNCHANGED firstEn
    /\ UNCHANGED <<llAddrOn, links, haveLink, doc, fetchRes, ok, exitCode, dir, entries,
                   wok, listing, eIdx, renderVars, histVars, failures>>

AddrAdd_noRevert ==
    /\ pc = "addr"
    /\ \E err \in BOOLEAN :
         /\ calls' = Append(calls, Call("AddrAdd", firstEn, ~err))
         /\ llAddrOn' = IF err THEN llAddrOn ELSE llAddrOn \cup {firstEn}
         /\ firstEn' = IF err THEN Nil ELSE firstEn
    /\ pc' = "fetch"
    /\ UNCHANGED <<ifaces, links, haveLink, doc, fetchRes, ok, exitCode, dir, entries,
                   wok, listing, eIdx, renderVars, histVars, failures>>

AddrAdd_keepFirstEn ==
    /\ pc = "addr"
    /\ \E err \in BOOLEAN, downErr \in BOOLEAN :
         IF ~err
         THEN /\ ~downErr
              /\ calls' = Append(calls, Call("AddrAdd", firstEn, TRUE))
              /\ llAddrOn' = llAddrOn \cup {firstEn}
              /\ UNCHANGED ifaces
         ELSE /\ calls' = calls \o <<Call("AddrAdd", firstEn, FALSE),
                                     Call("LinkSetDown", firstEn, ~downErr)>>
              /\ ifaces' = IF downErr THEN ifaces ELSE SetUp(ifaces, firstEn, FALSE)
              /\ UNCHANGED llAddrOn
    /\ pc' = "fetch"
    /\ UNCHANGED <<firstEn, links, haveLink, doc, fetchRes, ok, exitCode, dir, entries,
                   wok, listing, eIdx, renderVars, histVars, failures>>

AddrAdd ==
    /\ pc = "addr"
    /\ \E err \in BOOLEAN, downErr \in BOOLEAN :
         IF ~err
         THEN /\ ~downErr
              /\ calls' = Append(calls, Call("AddrAdd", firstEn, TRUE))
              /\ llAddrOn' = llAddrOn \cup {firstEn}
              /\ UNCHANGED <<ifaces, firstEn>>
         ELSE /\ calls' = calls \o <<Call("AddrAdd", firstEn, FALSE),
                                     Call("LinkSetDown", firstEn, ~downErr)>>
              /\ ifaces' = IF downErr THEN ifaces ELSE SetUp(ifaces, firstEn, FALSE)
              /\ firstEn' = Nil
              /\ UNCHANGED llAddrOn
    /\ pc' = "fetch"
    /\ UNCHANGED <<links, haveLink, doc, fetchRes, ok, exitCode, dir, entries, wok,
                   listing, eIdx, renderVars, histVars, failures>>

(* main, lines 188-210: the fetch chain.                                   *)
FetchBranch_noVersionCheck(getErr, status, readErr, parseErr, version) ==
    IF getErr THEN "error"
    ELSE IF status # StatusOK THEN "status"
    ELSE IF readErr THEN "read"
    ELSE IF parseErr THEN "parse"
    ELSE "write"
FetchBranch(getErr, status, readErr, parseErr, version) ==
    IF getErr THEN "error"
    ELSE IF status # StatusOK THEN "status"
    ELSE IF readErr THEN "read"
    ELSE IF parseErr THEN "parse"
    ELSE IF version # SupportedVersion THEN "version"
    ELSE "write"

Fetch_tearDownAfterGet ==
    /\ pc = "fetch"
    /\ \E getErr \in BOOLEAN, status \in {StatusOK, 503}, readErr \in BOOLEAN,
          parseErr \in BOOLEAN :
         LET res == FetchBranch(getErr, status, readErr, parseErr, doc.version)
             get == Call("Get", [getErr |-> getErr, status |-> status,
                                 readErr |-> readErr, parseErr |-> parseErr], ~getErr)
         IN /\ fetchRes' = res
            /\ IF ~haveLink /\ firstEn # Nil
               THEN /\ calls' = calls \o <<get, Call("AddrDel", firstEn, TRUE),
                                           Call("LinkSetDown", firstEn, TRUE)>>
                    /\ llAddrOn' = llAddrOn \ {firstEn}
                    /\ ifaces' = SetUp(ifaces, firstEn, FALSE)
                    /\ firstEn' = Nil
               ELSE /\ calls' = Append(calls, get)
                    /\ UNCHANGED <<hostVars, firstEn>>
            /\ IF res = "write"
               THEN entries' = doc.entries /\ pc' = "mkdir"
               ELSE UNCHANGED entries /\ pc' = "down"
    /\ ok' = FALSE
    /\ wok' = TRUE
    /\ eIdx' = 1
    /\ UNCHANGED <<links, haveLink, doc, exitCode, dir, listing, renderVars, histVars,
                   failures>>

Fetch ==
    /\ pc = "fetch"
    /\ \E getErr \in BOOLEAN, status \in {StatusOK, 503}, readErr \in BOOLEAN,
          parseErr \in BOOLEAN :
         LET res == FetchBranch(getErr, status, readErr, parseErr, doc.version)
         IN /\ fetchRes' = res
            /\ calls' = Append(calls,
                 Call("Get", [getErr |-> getErr, status |-> status, readErr |-> readErr,
                              parseErr |-> parseErr], ~getErr))
            /\ IF res = "write"
               THEN entries' = doc.entries /\ pc' = "mkdir"
               ELSE UNCHANGED entries /\ pc' = "down"
    /\ ok' = FALSE
    /\ wok' = TRUE
    /\ eIdx' = 1
    /\ UNCHANGED <<hostVars, links, haveLink, firstEn, doc, exitCode, dir, listing,
                   renderVars, histVars, failures>>

-----------------------------------------------------------------------------
(* writeConfigs, lines 54-132.                                             *)
Errs == IF failures < MaxFailures THEN BOOLEAN ELSE {FALSE}
Count(err) == IF err THEN failures + 1 ELSE failures

Accumulate_last(acc, err) == ~err
Accumulate(acc, err) == acc /\ ~err

(* The two range loops: each iteration is followed by the next element,    *)
(* whatever the iteration did.                                             *)
Rest_skipNext(l) == IF Len(l) >= 2 THEN Tail(Tail(l)) ELSE <<>>
Rest(l) == Tail(l)

NextEntry_abortOnError(i, err) == IF err THEN Len(entries) + 1 ELSE i + 1
NextEntry(i, err) == i + 1

DirList(d) == SelectSeq(AllNames, LAMBDA n : d[ConfigPath(n)].exists)
AfterList(l) == IF l = <<>> THEN "entries" ELSE "clean"

MkdirAll ==
    /\ pc = "mkdir"
    /\ \E err \in Errs :
         /\ wok' = Accumulate(wok, err)
         /\ failures' = Count(err)
         /\ calls' = Append(calls, Call("MkdirAll", ConfigDir, ~err))
    /\ pc' = "readdir"
    /\ UNCHANGED <<hostVars, mainVars, dir, entries, listing, eIdx, renderVars,
                   histVars>>

ReadDir ==
    /\ pc = "readdir"
    /\ \E err \in Errs :
         /\ wok' = Accumulate(wok, err)
         /\ failures' = Count(err)
         /\ calls' = Append(calls, Call("ReadDir", ConfigDir, ~err))
         /\ listing' = IF err THEN <<>> ELSE DirList(dir)
    /\ pc' = AfterList(listing')
    /\ UNCHANGED <<hostVars, mainVars, dir, entries, eIdx, renderVars, histVars>>

Remove ==
    /\ pc = "clean"
    /\ IsOldConfig(Head(listing))
    /\ \E err \in Errs :
         LET configPath == ConfigPath(Head(listing))
         IN /\ wok' = Accumulate(wok, err)
            /\ failures' = Count(err)
            /\ calls' = Append(calls, Call("Remove", configPath, ~err))
            /\ dir' = IF err THEN dir ELSE [dir EXCEPT ![configPath] = NoFile]
    /\ listing' = Rest(listing)
    /\ pc' = AfterList(listing')
    /\ UNCHANGED <<hostVars, mainVars, entries, eIdx, renderVars, histVars>>

KeepDirEntry ==
    /\ pc = "clean"
    /\ ~IsOldConfig(Head(listing))
    /\ listing' = Rest(listing)
    /\ pc' = AfterList(listing')
    /\ UNCHANGED <<hostVars, mainVars, dir, entries, wok, eIdx, renderVars, calls,
                   histVars, failures>>

(* lines 80-122: the text of one entry's file.                             *)
Header(entry) ==
    << <<"[Match]">>, <<"MACAddress=", entry.mac_address>>, <<"">>,
       <<"[Network]">>, <<"LinkLocalAddressing=yes">> >>

WantDHCP_assign(flag, subnet, family) ==
    IF subnet.type = "dhcp" THEN family ELSE flag
WantDHCP(flag, subnet, family) ==
    IF subnet.type = "dhcp" THEN flag \/ family ELSE flag

SubnetLines_gatewayFirst(subnet) ==
    (IF subnet.gateway # "" THEN << <<"Gateway=", subnet.gateway>> >> ELSE <<>>)
    \o (IF subnet.address # "" THEN << <<"Address=", subnet.address>> >> ELSE <<>>)
    \o [i \in 1..Len(subnet.dns_nameservers) |-> <<"DNS=", subnet.dns_nameservers[i]>>]
SubnetLines(subnet) ==
    (IF subnet.address # "" THEN << <<"Address=", subnet.address>> >> ELSE <<>>)
    \o (IF subnet.gateway # "" THEN << <<"Gateway=", subnet.gateway>> >> ELSE <<>>)
    \o [i \in 1..Len(subnet.dns_nameservers) |-> <<"DNS=", subnet.dns_nameservers[i]>>]

DHCPLines(v4, v6) ==
    IF v4
    THEN IF v6 THEN << <<"DHCP=yes">> >> ELSE << <<"DHCP=ipv4">> >>
    ELSE IF v6 THEN << <<"DHCP=ipv6">> >> ELSE <<>>

SkipEntry ==
    /\ pc = "entries"
    /\ eIdx <= Len(entries)
    /\ ~IsPhysical(entries[eIdx])
    /\ eIdx' = NextEntry(eIdx, FALSE)
    /\ UNCHANGED <<pc, hostVars, mainVars, dir, entries, wok, listing, renderVars,
                   calls, histVars, failures>>

BeginEntry ==
    /\ pc = "entries"
    /\ eIdx <= Len(entries)
    /\ IsPhysical(entries[eIdx])
    /\ config' = Header(entries[eIdx])
    /\ wantDHCPv4' = FALSE
    /\ wantDHCPv6' = FALSE
    /\ sIdx' = 1
    /\ pc' = "subnets"
    /\ UNCHANGED <<hostVars, mainVars, dir, entries, wok, listing, eIdx, calls,
                   histVars, failures>>

RenderSubnet ==
    /\ pc = "subnets"
    /\ sIdx <= Len(entries[eIdx].subnets)
    /\ LET subnet == entries[eIdx].subnets[sIdx]
       IN /\ wantDHCPv4' = WantDHCP(wantDHCPv4, subnet, subnet.ipv4)
          /\ wantDHCPv6' = WantDHCP(wantDHCPv6, subnet, subnet.ipv6)
          /\ config' = config \o SubnetLines(subnet)
    /\ sIdx' = sIdx + 1
    /\ UNCHANGED <<pc, hostVars, mainVars, dir, entries, wok, listing, eIdx, calls,
                   histVars, failures>>

(* os.WriteFile creates or truncates the file and then writes: a failed    *)
(* write leaves the file as it was (the open failed) or truncated.         *)
WriteResults_keepExisting(d, path, content, err) ==
    IF err
    THEN {d} \cup {[d EXCEPT ![path] = File(<<>>)]}
    ELSE {IF d[path].exists THEN d ELSE [d EXCEPT ![path] = File(content)]}
WriteResults(d, path, content, err) ==
    IF err
    THEN {d} \cup {[d EXCEPT ![path] = File(<<>>)]}
    ELSE {[d EXCEPT ![path] = File(content)]}

WriteFile ==
    /\ pc = "subnets"
    /\ sIdx > Len(entries[eIdx].subnets)
    /\ config' = config \o DHCPLines(wantDHCPv4, wantDHCPv6)
    /\ \E err \in Errs :
         LET configPath == ConfigPath(ConfigName(entries[eIdx].name))
         IN /\ wok' = Accumulate(wok, err)
            /\ failures' = Count(err)
            /\ calls' = Append(calls, Call("WriteFile", configPath, ~err))
            /\ dir' \in WriteResults(dir, configPath, config', err)
            /\ eIdx' = NextEntry(eIdx, err)
    /\ pc' = "entries"
    /\ UNCHANGED <<hostVars, mainVars, entries, listing, sIdx, wantDHCPv4, wantDHCPv6,
                   histVars>>

Return ==
    /\ pc = "entries"
    /\ eIdx > Len(entries)
    /\ ok' = wok
    /\ pc' = "down"
    /\ UNCHANGED <<hostVars, links, haveLink, firstEn, doc, fetchRes, exitCode, dir,
                   entries, wok, listing, eIdx, renderVars, calls, histVars, failures>>

-----------------------------------------------------------------------------
(* main, lines 212-220: bring the interface down again, exit.              *)
ShouldTearDown_onSuccess == ~haveLink /\ firstEn # Nil /\ ok
ShouldTearDown == ~haveLink /\ firstEn # Nil

TearDown ==
    /\ pc = "down"
    /\ ShouldTearDown
    /\ \E delErr \in BOOLEAN, downErr \in BOOLEAN :
         /\ calls' = calls \o <<Call("AddrDel", firstEn, ~delErr),
                                Call("LinkSetDown", firstEn, ~downErr)>>
         /\ llAddrOn' = IF delErr THEN llAddrOn ELSE llAddrOn \ {firstEn}
         /\ ifaces' = IF downErr THEN ifaces ELSE SetUp(ifaces, firstEn, FALSE)
    /\ pc' = "exit"
    /\ UNCHANGED <<mainVars, dir, entries, wok, listing, eIdx, renderVars, histVars,
                   failures>>

NoTearDown ==
    /\ pc = "down"
    /\ ~ShouldTearDown
    /\ pc' = "exit"
    /\ UNCHANGED <<hostVars, mainVars, dir, entries, wok, listing, eIdx, renderVars,
                   calls, histVars, failures>>

ExitStatus_always0(success) == ExitSuccess
ExitStatus(success) == IF success THEN ExitSuccess ELSE ExitFailure

Exit ==
    /\ pc = "exit"
    /\ exitCode' = ExitStatus(ok)
    /\ pc' = "done"
    /\ UNCHANGED <<hostVars, links, haveLink, firstEn, doc, fetchRes, ok, dir, entries,
                   wok, listing, eIdx, renderVars, calls, histVars, failures>>

-----------------------------------------------------------------------------
(* One run of main.                                                        *)
PhysA == [name |-> <<"a">>, type |-> "physical", mac_address |-> "aa:bb:cc:dd:ee:ff",
          subnets |-> <<DhcpSubnet, StaticSubnet>>]
PhysB == [name |-> <<"b">>, type |-> "physical", mac_address |-> "aa:bb:cc:dd:ee:ff",
          subnets |-> <<>>]
VlanB == [name |-> <<"b">>, type |-> "vlan", mac_address |-> "aa:bb:cc:dd:ee:ff",
          subnets |-> <<DhcpSubnet, StaticSubnet>>]
MainDocs ==
    {[version |-> 2, entries |-> <<PhysA>>],
     [version |-> SupportedVersion, entries |-> <<>>],
     [version |-> SupportedVersion, entries |-> <<PhysA, VlanB>>],
     [version |-> SupportedVersion, entries |-> <<PhysB, PhysA>>]}
Dirs ==
    {d \in [AllPaths -> {NoFile, File(OldContent)}] :
       d[ConfigPath(ForeignName)] = d[ConfigPath(OtherExtName)]}
EmptyDir == [p \in AllPaths |-> NoFile]
MainDirs ==
    {EmptyDir,
     [p \in AllPaths |->
        IF p \in {ConfigPath(ForeignName), ConfigPath(StaleName),
                  ConfigPath(ConfigName(<<"a">>))}
        THEN File(OldContent) ELSE NoFile]}

InitLocals ==
    /\ links = <<>>
    /\ haveLink = FALSE
    /\ firstEn = Nil
    /\ fetchRes = "none"
    /\ ok = FALSE
    /\ exitCode = -1
    /\ wok = TRUE
    /\ listing = <<>>
    /\ eIdx = 1
    /\ sIdx = 1
    /\ config = <<>>
    /\ wantDHCPv4 = FALSE
    /\ wantDHCPv6 = FALSE
    /\ calls = <<>>
    /\ run = 1
    /\ prevOk = FALSE
    /\ failures = 0

Init ==
    /\ pc = "probe"
    /\ ifaces \in SeqsUpTo(IfaceSet, MaxLinks)
    /\ llAddrOn = {}
    /\ doc \in MainDocs
    /\ entries = <<>>
    /\ dir \in MainDirs
    /\ dir0 = dir
    /\ prevDir = dir
    /\ InitLocals

Next ==
    \/ LinkList \/ NoActivation \/ LinkSetUp \/ AddrAdd \/ Fetch
    \/ MkdirAll \/ ReadDir \/ Remove \/ KeepDirEntry
    \/ SkipEntry \/ BeginEntry \/ RenderSubnet \/ WriteFile \/ Return
    \/ TearDown \/ NoTearDown \/ Exit

Spec == Init /\ [][Next]_vars

(* The process keeps running until it exits: no step of main blocks for    *)
(* ever (the fetch is bounded by the client's timeout, line 192).          *)
SpecLive == Init /\ [][Next]_vars /\ WF_vars(Next)

-----------------------------------------------------------------------------
(* writeConfigs alone, called twice with the same entries (the service is  *)
(* started again on the directory the first call left).                    *)
CallAgain ==
    /\ pc = "down"
    /\ run = 1
    /\ run' = 2
    /\ prevDir' = dir
    /\ prevOk' = ok
    /\ dir0' = dir
    /\ calls' = <<>>
    /\ ok' = FALSE
    /\ wok' = TRUE
    /\ eIdx' = 1
    /\ sIdx' = 1
    /\ config' = <<>>
    /\ wantDHCPv4' = FALSE
    /\ wantDHCPv6' = FALSE
    /\ pc' = "mkdir"
    /\ UNCHANGED <<hostVars, links, haveLink, firstEn, doc, fetchRes, exitCode, dir,
                   entries, listing, failures>>

InitSync ==
    /\ pc = "mkdir"
    /\ ifaces = <<>>
    /\ llAddrOn = {}
    /\ entries \in SeqsUpTo(EntrySet, MaxEntries)
    /\ doc = [version |-> SupportedVersion, entries |-> entries]
    /\ dir \in Dirs
    /\ dir0 = dir
    /\ prevDir = dir
    /\ InitLocals

NextSync ==
    \/ MkdirAll \/ ReadDir \/ Remove \/ KeepDirEntry
    \/ SkipEntry \/ BeginEntry \/ RenderSubnet \/ WriteFile \/ Return
    \/ CallAgain

SpecSync == InitSync /\ [][NextSync]_vars

(* The entries loop of writeConfigs on one physical entry, its subnets     *)
(* drawn from SubnetSet, in an empty directory.                            *)
InitRender ==
    /\ pc = "entries"
    /\ ifaces = <<>>
    /\ llAddrOn = {}
    /\ entries \in {<<e>> : e \in RichEntrySet}
    /\ doc = [version |-> SupportedVersion, entries |-> entries]
    /\ dir = EmptyDir
    /\ dir0 = dir
    /\ prevDir = dir
    /\ InitLocals

NextRender == BeginEntry \/ RenderSubnet \/ WriteFile \/ Return

SpecRender == InitRender /\ [][NextRender]_vars

-----------------------------------------------------------------------------
(* What the claims speak of.                                               *)
CallsOf(op) == {i \in DOMAIN calls : calls[i].op = op}
DirOps == {"MkdirAll", "ReadDir", "Remove", "WriteFile"}
DirCalls == {i \in DOMAIN calls : calls[i].op \in DirOps}
AllDirCallsOk == \A i \in DirCalls : calls[i].ok

(* The interfaces on which LinkSetUp and then AddrAdd succeeded.           *)
ActivatedAt(j) ==
    /\ calls[j].op = "AddrAdd" /\ calls[j].ok
    /\ \E i \in 1..(j - 1) :
         calls[i].op = "LinkSetUp" /\ calls[i].ok /\ calls[i].arg = calls[j].arg
Activated == \E j \in DOMAIN calls : ActivatedAt(j)

GetInputs == calls[CHOOSE i \in DOMAIN calls : calls[i].op = "Get"].arg
Fetched == CallsOf("Get") # {}
FetchSucceeded ==
    /\ Fetched
    /\ ~GetInputs.getErr /\ GetInputs.status = 200
    /\ ~GetInputs.readErr /\ ~GetInputs.parseErr
    /\ doc.version = 1

(* C1: when LinkSetUp and AddrAdd on the fallback interface both           *)
(* succeeded, the finished run has called AddrDel and then LinkSetDown on  *)
(* that interface after them, whatever the fetch and the sync did.         *)
C1_TeardownBeforeExit ==
    pc = "done" =>
      \A j \in DOMAIN calls :
        ActivatedAt(j) =>
          \E k \in (j + 1)..Len(calls) :
            /\ calls[k].op = "AddrDel" /\ calls[k].arg = calls[j].arg
            /\ \E l \in (k + 1)..Len(calls) :
                 calls[l].op = "LinkSetDown" /\ calls[l].arg = calls[j].arg

C1_Witness ==
    /\ pc = "done" /\ Activated /\ exitCode = 1
    /\ FetchSucceeded /\ ~AllDirCallsOk
    /\ calls[Len(calls)].op = "LinkSetDown"

(* C2: the exit status is 0 exactly when the fetch returned 200, the body  *)
(* was read and decoded, the version is 1 and every directory step         *)
(* succeeded, and 1 otherwise; no interface call's outcome enters into it. *)
C2_ExitStatus ==
    pc = "done" =>
      /\ exitCode \in {0, 1}
      /\ exitCode = 0 <=> (FetchSucceeded /\ AllDirCallsOk)

C2_Witness ==
    /\ pc = "done" /\ exitCode = 0
    /\ \E i \in DOMAIN calls : calls[i].op = "LinkSetUp" /\ ~calls[i].ok
    /\ CallsOf("WriteFile") # {}

(* C3: after a failed fetch (connection error, status other than 200,      *)
(* read error, decode error, version other than 1) the run makes no        *)
(* directory call, the directory stays as it was, and the exit status is 1.*)
C3_FetchFailureTouchesNothing ==
    (Fetched /\ ~FetchSucceeded) =>
      /\ DirCalls = {}
      /\ dir = dir0
      /\ pc = "done" => exitCode = 1

C3_Witness ==
    /\ pc = "done" /\ exitCode = 1
    /\ ~GetInputs.getErr /\ GetInputs.status = 200
    /\ ~GetInputs.readErr /\ ~GetInputs.parseErr /\ doc.version # 1
    /\ dir[ConfigPath(StaleName)].exists

-----------------------------------------------------------------------------
(* Claims about writeConfigs.  The paths and the naming convention are     *)
(* written out here from the specification's words.                        *)
PhysicalIdx == {i \in DOMAIN entries : entries[i].type = "physical"}
PathOfEntry(i) ==
    <<"/run/systemd/network", ConfigPrefix \o entries[i].name \o ConfigSuffix>>
PhysicalPaths == {PathOfEntry(i) : i \in PhysicalIdx}
Prefixed(p) == HasPrefix(p[2], ConfigPrefix) /\ HasSuffix(p[2], ConfigSuffix)
GeneratedIn(d) == {p \in DOMAIN d : d[p].exists /\ Prefixed(p)}
Returned == pc = "down"
IsWrite(c) == c.op = "WriteFile"
Writes == SelectSeq(calls, IsWrite)
IsPhysicalEntry(e) == e.type = "physical"
PhysicalEntries == SelectSeq(entries, IsPhysicalEntry)

(* The finished text of the entry the loop has just left.                  *)
Rendered ==
    /\ pc \in {"entries", "down"}
    /\ eIdx > 1 /\ eIdx - 1 <= Len(entries)
    /\ entries[eIdx - 1].type = "physical"
RenderedEntry == entries[eIdx - 1]

AnyDhcp4(subs, n) == \E i \in 1..n : subs[i].type = "dhcp" /\ subs[i].ipv4
AnyDhcp6(subs, n) == \E i \in 1..n : subs[i].type = "dhcp" /\ subs[i].ipv6
IsDhcpLine(l) == l[1] \in {"DHCP=yes", "DHCP=ipv4", "DHCP=ipv6"}

(* C4: while the subnets of an entry are processed each want-flag is the   *)
(* OR of the ipv4 (ipv6) flags of the dhcp subnets seen so far, so it      *)
(* never turns off; the finished text holds DHCP=yes when both are set,    *)
(* DHCP=ipv4 or DHCP=ipv6 when one is, and no DHCP directive otherwise.    *)
C4_DHCPInference ==
    /\ pc = "subnets" =>
         /\ wantDHCPv4 = AnyDhcp4(entries[eIdx].subnets, sIdx - 1)
         /\ wantDHCPv6 = AnyDhcp6(entries[eIdx].subnets, sIdx - 1)
    /\ Rendered =>
         LET subs == RenderedEntry.subnets
             v4 == AnyDhcp4(subs, Len(subs))
             v6 == AnyDhcp6(subs, Len(subs))
         IN SelectSeq(config, IsDhcpLine) =
              IF v4 /\ v6 THEN << <<"DHCP=yes">> >>
              ELSE IF v4 THEN << <<"DHCP=ipv4">> >>
              ELSE IF v6 THEN << <<"DHCP=ipv6">> >>
              ELSE <<>>

C4_Witness ==
    /\ Rendered
    /\ Len(RenderedEntry.subnets) = 2
    /\ RenderedEntry.subnets[1].type = "dhcp"
    /\ RenderedEntry.subnets[1].ipv4 /\ ~RenderedEntry.subnets[1].ipv6
    /\ RenderedEntry.subnets[2].type = "dhcp"
    /\ ~RenderedEntry.subnets[2].ipv4 /\ ~RenderedEntry.subnets[2].ipv6
    /\ config[Len(config)] = <<"DHCP=ipv4">>

C6_StaleRemoved ==
    (Returned /\ \A i \in CallsOf("ReadDir") \cup CallsOf("Remove") : calls[i].ok) =>
      \A p \in DOMAIN dir0 :
        (dir0[p].exists /\ Prefixed(p) /\ p \notin PhysicalPaths) => ~dir[p].exists

C6_Witness ==
    /\ Returned /\ run = 1
    /\ PhysicalIdx = {} /\ Writes = <<>>
    /\ \A i \in CallsOf("ReadDir") \cup CallsOf("Remove") : calls[i].ok
    /\ \E p \in DOMAIN dir0 : dir0[p].exists /\ Prefixed(p) /\ ~dir[p].exists

(* C7: whatever fails, a run makes the directory creation, the listing,    *)
(* one removal per listed file with the prefix and the suffix, and one     *)
(* write per physical entry in order; a write that succeeded leaves its    *)
(* file on disk; the result is true exactly when every call succeeded.     *)
C7_NoAbort ==
    Returned =>
      /\ Len(calls) >= 2
      /\ calls[1].op = "MkdirAll" /\ calls[2].op = "ReadDir"
      /\ Cardinality(CallsOf("MkdirAll")) = 1 /\ Cardinality(CallsOf("ReadDir")) = 1
      /\ calls[2].ok =>
           /\ {calls[i].arg : i \in CallsOf("Remove")} = GeneratedIn(dir0)
           /\ Cardinality(CallsOf("Remove")) = Cardinality(GeneratedIn(dir0))
      /\ Len(Writes) = Len(PhysicalEntries)
      /\ \A k \in DOMAIN Writes :
           Writes[k].arg = <<"/run/systemd/network",
                             ConfigPrefix \o PhysicalEntries[k].name \o ConfigSuffix>>
      /\ \A i \in CallsOf("WriteFile") : calls[i].ok => dir[calls[i].arg].exists
      /\ ok = AllDirCallsOk

C7_Witness ==
    /\ Returned /\ ~ok
    /\ ~calls[1].ok
    /\ \E i \in CallsOf("WriteFile"), j \in CallsOf("WriteFile") :
         /\ i < j /\ ~calls[i].ok /\ calls[j].ok
         /\ dir[calls[j].arg].exists

C9_OneFilePerPhysicalEntry ==
    (Returned /\ AllDirCallsOk) =>
      /\ \A i \in PhysicalIdx : dir[PathOfEntry(i)].exists
      /\ Cardinality(GeneratedIn(dir)) = Cardinality(PhysicalIdx)

(* C9 amended: after a run in which every step succeeded the files with    *)
(* the prefix and the suffix are exactly the files of the physical         *)
(* entries, one per distinct name of a physical entry.                     *)
C9_OneFilePerPhysicalName ==
    (Returned /\ AllDirCallsOk) =>
      /\ \A i \in PhysicalIdx : dir[PathOfEntry(i)].exists
      /\ GeneratedIn(dir) = PhysicalPaths
      /\ Cardinality(GeneratedIn(dir)) =
           Cardinality({entries[i].name : i \in PhysicalIdx})

C9_Witness ==
    /\ Returned /\ AllDirCallsOk
    /\ Cardinality(PhysicalIdx) = 2
    /\ Cardinality(GeneratedIn(dir)) = 1
    /\ GeneratedIn(dir0) # {}

(* The Address, Gateway and DNS lines the subnets call for, in order.      *)
DirectivesOf(subnet) ==
    (IF subnet.address = "" THEN <<>> ELSE << <<"Address=", subnet.address>> >>)
    \o (IF subnet.gateway = "" THEN <<>> ELSE << <<"Gateway=", subnet.gateway>> >>)
    \o [k \in DOMAIN subnet.dns_nameservers |-> <<"DNS=", subnet.dns_nameservers[k]>>]
RECURSIVE DirectivesOfAll(_)
DirectivesOfAll(subs) ==
    IF subs = <<>> THEN <<>>
    ELSE DirectivesOf(Head(subs)) \o DirectivesOfAll(Tail(subs))

(* C10: the finished text starts with the MAC match stanza and             *)
(* LinkLocalAddressing=yes, followed by the Address, Gateway and DNS lines *)
(* subnet by subnet in declaration order (Address and Gateway only where   *)
(* non-empty, the nameservers in their order), with none of them after.    *)
C10_DirectiveOrder ==
    Rendered =>
      LET e == RenderedEntry
          exp == DirectivesOfAll(e.subnets)
      IN /\ Len(config) >= 5 + Len(exp)
         /\ SubSeq(config, 1, 5) =
              << <<"[Match]">>, <<"MACAddress=", e.mac_address>>, <<"">>,
                 <<"[Network]">>, <<"LinkLocalAddressing=yes">> >>
         /\ SubSeq(config, 6, 5 + Len(exp)) = exp
         /\ \A k \in (6 + Len(exp))..Len(config) :
              config[k][1] \notin {"Address=", "Gateway=", "DNS="}

C10_Witness ==
    /\ Rendered
    /\ Len(RenderedEntry.subnets) = 2
    /\ RenderedEntry.subnets[1].address = "" /\ RenderedEntry.subnets[1].gateway # ""
    /\ Len(RenderedEntry.subnets[1].dns_nameservers) = 2
    /\ RenderedEntry.subnets[2].address # "" /\ RenderedEntry.subnets[2].gateway # ""
    /\ Len(config) = 10

-----------------------------------------------------------------------------
(* Claims about the link scan and the temporary activation.                *)
EthLike(n) ==
    \/ Len(n) >= 2 /\ n[1] = "e" /\ n[2] = "n"
    \/ Len(n) >= 3 /\ n[1] = "e" /\ n[2] = "t" /\ n[3] = "h"
EthIdx == {i \in DOMAIN links : EthLike(links[i].name)}
UpEth == {i \in EthIdx : links[i].up}
Least(S) == CHOOSE x \in S : \A y \in S : x <= y
LinkOps == {"LinkSetUp", "AddrAdd", "AddrDel", "LinkSetDown"}
LinkCalls == {i \in DOMAIN calls : calls[i].op \in LinkOps}
NeedsActivation == EthIdx # {} /\ UpEth = {}

(* C11: LinkSetUp is called exactly when the enumeration gave at least one *)
(* ethernet-like interface and none of them up; otherwise (one is up, none *)
(* exists, the enumeration failed) the run makes no LinkSetUp, AddrAdd,    *)
(* AddrDel or LinkSetDown call, and it still makes the fetch.              *)
C11_ActivationOnlyWithoutLink ==
    pc \notin {"probe", "activate"} =>
      /\ (CallsOf("LinkSetUp") # {}) <=> NeedsActivation
      /\ ~calls[1].ok => ~NeedsActivation
      /\ ~NeedsActivation => LinkCalls = {}
      /\ pc = "done" => Fetched

C11_Witness ==
    /\ pc = "done"
    /\ calls[1].op = "LinkList" /\ ~calls[1].ok
    /\ \E i \in DOMAIN ifaces : EthLike(ifaces[i].name) /\ ~ifaces[i].up
    /\ \A i \in DOMAIN ifaces : ~ifaces[i].up
    /\ LinkCalls = {}
    /\ Fetched

(* C12: right after the scan, haveLink holds exactly when some             *)
(* ethernet-like interface is up; when it does not hold, the fallback is   *)
(* the first ethernet-like interface of the enumeration, and nil exactly   *)
(* when there is none; when it holds, the scan stopped at the first        *)
(* ethernet-like interface that is up, so the fallback is the first        *)
(* ethernet-like interface if that one comes before it and nil otherwise.  *)
(* Only ethernet-like interfaces enter these values.                       *)
C12_LinkScan ==
    pc = "activate" =>
      /\ haveLink = (UpEth # {})
      /\ ~haveLink => firstEn = IF EthIdx = {} THEN Nil ELSE Least(EthIdx)
      /\ haveLink =>
           firstEn = IF Least(EthIdx) < Least(UpEth) THEN Least(EthIdx) ELSE Nil

C12_Witness ==
    /\ pc = "activate" /\ ~haveLink
    /\ Len(links) = 2
    /\ ~EthLike(links[1].name) /\ links[1].up
    /\ EthLike(links[2].name)
    /\ firstEn = 2

(* C13: after a failed LinkSetUp no AddrAdd and no other call on the       *)
(* interface follows, and the interfaces stay as enumerated; a failed      *)
(* AddrAdd is followed at once by LinkSetDown on the same interface, and   *)
(* by no other call on it; the interface holds 169.254.0.1/16 for the      *)
(* fetch exactly when both calls succeeded, and then it is up.             *)
C13_ActivationReverts ==
    /\ \A i \in CallsOf("LinkSetUp") :
         ~calls[i].ok =>
           /\ \A j \in LinkCalls : j <= i
           /\ firstEn = Nil
           /\ ifaces = links
    /\ \A i \in CallsOf("AddrAdd") :
         /\ calls[i - 1].op = "LinkSetUp" /\ calls[i - 1].ok
         /\ calls[i - 1].arg = calls[i].arg
         /\ ~calls[i].ok =>
              /\ Len(calls) > i
              /\ calls[i + 1].op = "LinkSetDown" /\ calls[i + 1].arg = calls[i].arg
              /\ \A j \in LinkCalls : j <= i + 1
              /\ firstEn = Nil
              /\ calls[i + 1].ok => ~ifaces[calls[i].arg].up
    /\ pc = "fetch" =>
         /\ (llAddrOn # {}) <=> Activated
         /\ Activated => (llAddrOn = {firstEn} /\ ifaces[firstEn].up)

C13_Witness ==
    /\ pc = "fetch"
    /\ \E i \in CallsOf("AddrAdd") :
         /\ ~calls[i].ok /\ calls[i + 1].ok
         /\ ~ifaces[calls[i].arg].up
    /\ llAddrOn = {}

(* C14: a run calls LinkSetDown at most once and AddrDel at most once;     *)
(* AddrDel, followed by LinkSetDown, is called only after LinkSetUp and    *)
(* AddrAdd both succeeded; a run that ends after a failed LinkSetUp or     *)
(* AddrAdd has made no AddrDel.                                            *)
C14_NoDoubleDeactivation ==
    /\ Cardinality(CallsOf("LinkSetDown")) <= 1
    /\ Cardinality(CallsOf("AddrDel")) <= 1
    /\ \A k \in CallsOf("AddrDel") :
         /\ \E j \in 1..(k - 1) : ActivatedAt(j) /\ calls[j].arg = calls[k].arg
         /\ calls[k + 1].op = "LinkSetDown" /\ calls[k + 1].arg = calls[k].arg
    /\ pc \in {"exit", "done"} => ((CallsOf("AddrDel") # {}) <=> Activated)

C14_Witness ==
    /\ pc = "done"
    /\ \E i \in CallsOf("AddrAdd") : ~calls[i].ok
    /\ Cardinality(CallsOf("LinkSetDown")) = 1
    /\ CallsOf("AddrDel") = {}
    /\ calls[Len(calls)].op = "Get"

(* The step of the run a call belongs to: probe, activation (with the      *)
(* LinkSetDown that follows a failed AddrAdd), fetch, directory sync,      *)
(* teardown.                                                               *)
PhaseAt(i) ==
    IF calls[i].op = "LinkList" THEN 1
    ELSE IF calls[i].op \in {"LinkSetUp", "AddrAdd"} THEN 2
    ELSE IF calls[i].op = "LinkSetDown"
         THEN IF calls[i - 1].op = "AddrAdd" THEN 2 ELSE 5
    ELSE IF calls[i].op = "Get" THEN 3
    ELSE IF calls[i].op \in DirOps THEN 4
    ELSE 5

(* C15: the calls of a run come in the order probe, activation, fetch,     *)
(* directory sync (only after a successful fetch), teardown, and the exit  *)
(* status comes last; after a successful activation the interface is up    *)
(* with the address from the fetch to the return of the sync, no AddrDel   *)
(* or LinkSetDown is made before that, and both are made before the exit.  *)
C15_RunOrder ==
    /\ \A i \in DOMAIN calls : i > 1 => PhaseAt(i - 1) <= PhaseAt(i)
    /\ Cardinality(CallsOf("LinkList")) = IF pc = "probe" THEN 0 ELSE 1
    /\ DirCalls # {} => FetchSucceeded
    /\ (Activated /\ pc \in {"fetch", "mkdir", "readdir", "clean", "entries",
                            "subnets", "down"}) =>
         /\ firstEn # Nil /\ firstEn \in llAddrOn /\ ifaces[firstEn].up
         /\ CallsOf("AddrDel") = {} /\ CallsOf("LinkSetDown") = {}
    /\ (Activated /\ pc \in {"exit", "done"}) =>
         /\ calls[Len(calls) - 1].op = "AddrDel"
         /\ calls[Len(calls)].op = "LinkSetDown"
    /\ pc # "done" => exitCode = -1
    /\ pc \in {"down", "exit", "done"} => Fetched

C15_Witness ==
    /\ pc = "down" /\ Activated
    /\ Len(Writes) = 2
    /\ firstEn \in llAddrOn /\ ifaces[firstEn].up

(* C16: whatever the enumeration, LinkSetUp and AddrAdd return, a run      *)
(* makes each of LinkSetUp and AddrAdd at most once and the fetch at most  *)
(* once, a finished run has made the fetch exactly once and has an exit    *)
(* status of 0 or 1, and every run finishes.                               *)
C16_Safety ==
    /\ Cardinality(CallsOf("LinkSetUp")) <= 1
    /\ Cardinality(CallsOf("AddrAdd")) <= 1
    /\ Cardinality(CallsOf("Get")) <= 1
    /\ pc = "done" => (Cardinality(CallsOf("Get")) = 1 /\ exitCode \in {0, 1})
C16_NoRetryAndTermination == []C16_Safety /\ <>(pc = "done")

C16_Witness ==
    /\ pc = "done" /\ exitCode = 0
    /\ \E i \in CallsOf("AddrAdd") : ~calls[i].ok
    /\ Cardinality(CallsOf("Get")) = 1

-----------------------------------------------------------------------------
(* Claims about the frame and the order of the directory sync.             *)
Removes == CallsOf("Remove")
WriteCalls == CallsOf("WriteFile")
ForeignPaths == {p \in AllPaths : ~Prefixed(p)}

(* C17: in every state of every run, whatever fails, each directory entry  *)
(* lacking the prefix or the suffix is as it was before the run, and no    *)
(* removal and no write is addressed to such an entry.                     *)
C17_ForeignUntouched ==
    /\ \A p \in ForeignPaths : dir[p] = dir0[p]
    /\ \A i \in DOMAIN calls :
         calls[i].op \in {"Remove", "WriteFile"} => calls[i].arg \notin ForeignPaths

C17_Witness ==
    /\ Returned
    /\ \E p \in DOMAIN dir :
         /\ HasPrefix(p[2], ConfigPrefix) /\ ~HasSuffix(p[2], ConfigSuffix)
         /\ dir[p].exists
    /\ \E p \in DOMAIN dir :
         /\ ~HasPrefix(p[2], ConfigPrefix) /\ HasSuffix(p[2], ConfigSuffix)
         /\ dir[p].exists
    /\ \E i \in Removes : calls[i].ok
    /\ \E i \in WriteCalls : ~calls[i].ok
    /\ \E i \in WriteCalls : calls[i].ok

(* The text an entry calls for, and the last physical entry of its name.   *)
ExpectedText(e) ==
    << <<"[Match]">>, <<"MACAddress=", e.mac_address>>, <<"">>,
       <<"[Network]">>, <<"LinkLocalAddressing=yes">> >>
    \o DirectivesOfAll(e.subnets)
    \o (LET v4 == AnyDhcp4(e.subnets, Len(e.subnets))
            v6 == AnyDhcp6(e.subnets, Len(e.subnets))
        IN IF v4 /\ v6 THEN << <<"DHCP=yes">> >>
           ELSE IF v4 THEN << <<"DHCP=ipv4">> >>
           ELSE IF v6 THEN << <<"DHCP=ipv6">> >>
           ELSE <<>>)
LastOfName(i) ==
    CHOOSE j \in PhysicalIdx :
      /\ entries[j].name = entries[i].name
      /\ \A k \in PhysicalIdx : entries[k].name = entries[i].name => k <= j

(* C18: in a run every removal comes before every write, a write that      *)
(* succeeded leaves its file in place to the end of the run, and after a   *)
(* run in which every step succeeded the file of each physical entry       *)
(* holds the text of the last physical entry of that name.                 *)
C18_RemovalsBeforeWrites ==
    /\ \A j \in DOMAIN calls :
         calls[j].op = "Remove" => \A i \in 1..(j - 1) : calls[i].op # "WriteFile"
    /\ \A j \in DOMAIN calls :
         (calls[j].op = "WriteFile" /\ calls[j].ok) => dir[calls[j].arg].exists
    /\ (Returned /\ AllDirCallsOk) =>
         \A i \in PhysicalIdx :
           /\ dir[PathOfEntry(i)].exists
           /\ dir[PathOfEntry(i)].content = ExpectedText(entries[LastOfName(i)])

C18_Witness ==
    /\ Returned /\ AllDirCallsOk
    /\ Len(entries) = 2 /\ PhysicalIdx = {1, 2}
    /\ entries[1].name = entries[2].name
    /\ entries[1].subnets # entries[2].subnets
    /\ dir0[PathOfEntry(1)].exists
    /\ \E i \in Removes : calls[i].arg = PathOfEntry(1)
    /\ dir[PathOfEntry(1)].content = ExpectedText(entries[2])
    /\ dir[PathOfEntry(1)].content # ExpectedText(entries[1])

====
